---------------------------- MODULE Spec2Model ----------------------------
(***************************************************************************)
(* A model of docs-db.js: the DocumentDB wrapper (sanitizeData, save,      *)
(* getByUser, getById, delete, clearUserDocuments) over one IndexedDB      *)
(* database 'DocumentsDB' with one object store 'documents'.               *)
(*                                                                         *)
(* JavaScript values are tagged records; a string is a sequence of         *)
(* one-character strings, so that trim() and the escaping replace() chain  *)
(* are computed character by character as the code computes them.          *)
(* IndexedDB itself is the host's: its documented behaviour is modelled    *)
(* (transactions over one store run one at a time in creation order when   *)
(* one of them is readwrite, an aborted transaction is rolled back, the    *)
(* key generator hands out 1, 2, 3, ...).                                  *)
(*                                                                         *)
(* Of docs-api.js the model has rateLimiter.canMakeCall (SpecLimiter) and  *)
(* the input listener of initializePincodeAutofill with its timeouts       *)
(* (SpecAutofill).                                                         *)
(***************************************************************************)
EXTENDS Integers, Sequences, FiniteSets, TLC

(***************************************************************************)
(* Bounds of the model.                                                    *)
(***************************************************************************)
\* number of calls the callers make in one run
MaxCalls == 3
\* last value of the clock (Date.now() returns 1..MaxTime)
MaxTime == 2
\* number of I/O faults the host injects in one run
MaxFaults == 1
\* number of calls the single caller of SpecArgs makes, one after the other
MaxArgCalls == 2
\* length of the longest string leaf handed to sanitizeData on its own
MaxLen == 1
\* depth of nesting of the values handed to sanitizeData on its own
MaxDepth == 2
\* number of times sanitizeData is applied, each time to its last result
MaxPasses == 2
\* number of rateLimiter.canMakeCall calls in one run
MaxLimiterCalls == 11
\* number of input events on the form in one run
MaxInputs == 3

(***************************************************************************)
(* JavaScript values.                                                      *)
(***************************************************************************)
Str(s) == [t |-> "string", s |-> s]
Bool(b) == [t |-> "boolean", b |-> b]
\* the number num/den; den is 1 for an integer and 2 for a half
Num(n) == [t |-> "number", num |-> n, den |-> 1]
Half(n) == [t |-> "number", num |-> n, den |-> 2]
Null == [t |-> "null"]
Undefined == [t |-> "undefined"]
Obj(m) == [t |-> "object", m |-> m]
Arr(a) == [t |-> "array", a |-> a]
EmptyObj == Obj(<<>>)

\* typeof v
TypeOf(v) ==
    CASE v.t = "string" -> "string"
      [] v.t = "number" -> "number"
      [] v.t = "boolean" -> "boolean"
      [] v.t = "undefined" -> "undefined"
      [] OTHER -> "object"

\* !!v
Truthy(v) ==
    CASE v.t = "string" -> v.s # <<>>
      [] v.t = "number" -> v.num # 0
      [] v.t = "boolean" -> v.b
      [] v.t = "null" -> FALSE
      [] v.t = "undefined" -> FALSE
      [] OTHER -> TRUE

WhiteSpace == {" ", "\t", "\n"}

RECURSIVE TrimStart(_)
TrimStart(s) ==
    IF s # <<>> /\ Head(s) \in WhiteSpace THEN TrimStart(Tail(s)) ELSE s

RECURSIVE TrimEnd(_)
TrimEnd(s) ==
    IF s # <<>> /\ s[Len(s)] \in WhiteSpace
    THEN TrimEnd(SubSeq(s, 1, Len(s) - 1))
    ELSE s

\* String.prototype.trim
Trim(s) == TrimEnd(TrimStart(s))

\* s.replace(/ch/g, rep)
RECURSIVE ReplaceAll(_, _, _)
ReplaceAll(s, ch, rep) ==
    IF s = <<>> THEN <<>>
    ELSE (IF Head(s) = ch THEN rep ELSE <<Head(s)>>) \o ReplaceAll(Tail(s), ch, rep)

\* (a variant of EscapeHtml that escapes the ampersand too, as its last step)
EscapeHtmlAndAmpersand(s) ==
    LET s1 == ReplaceAll(s, "<", <<"&", "l", "t", ";">>)
        s2 == ReplaceAll(s1, ">", <<"&", "g", "t", ";">>)
        s3 == ReplaceAll(s2, "\"", <<"&", "q", "u", "o", "t", ";">>)
        s4 == ReplaceAll(s3, "'", <<"&", "#", "x", "2", "7", ";">>)
        s5 == ReplaceAll(s4, "/", <<"&", "#", "x", "2", "F", ";">>)
    IN  ReplaceAll(s5, "&", <<"&", "a", "m", "p", ";">>)

\* the five replace() calls applied to a string value, in the code's order
EscapeHtml(s) ==
    LET s1 == ReplaceAll(s, "<", <<"&", "l", "t", ";">>)
        s2 == ReplaceAll(s1, ">", <<"&", "g", "t", ";">>)
        s3 == ReplaceAll(s2, "\"", <<"&", "q", "u", "o", "t", ";">>)
        s4 == ReplaceAll(s3, "'", <<"&", "#", "x", "2", "7", ";">>)
    IN  ReplaceAll(s4, "/", <<"&", "#", "x", "2", "F", ";">>)

\* Object.entries(data): the own keys of an object, the indices "0", "1", ...
\* of an array
EntryKeys(data) ==
    IF data.t = "array" THEN {ToString(i - 1) : i \in 1..Len(data.a)}
    ELSE DOMAIN data.m

EntryValue(data, k) ==
    IF data.t = "array"
    THEN data.a[CHOOSE i \in 1..Len(data.a) : ToString(i - 1) = k]
    ELSE data.m[k]

\* DocumentDB.sanitizeData
RECURSIVE sanitizeData(_)
sanitizeData(data) ==
    IF ~Truthy(data) \/ TypeOf(data) # "object" THEN data
    ELSE LET item(x) == IF TypeOf(x) = "object" THEN sanitizeData(x) ELSE x
             entry(value) ==
                 IF TypeOf(value) = "string" THEN Str(EscapeHtml(value.s))
                 ELSE IF value.t = "array"
                      THEN Arr([i \in 1..Len(value.a) |-> item(value.a[i])])
                 ELSE IF TypeOf(value) = "object" /\ value.t # "null"
                      THEN sanitizeData(value)
                 ELSE value
         IN  Obj([k \in EntryKeys(data) |-> entry(EntryValue(data, k))])


(***************************************************************************)
(* Validation and the document save() builds.                              *)
(***************************************************************************)
\* !x || typeof x !== 'string'
InvalidString(x) == ~Truthy(x) \/ TypeOf(x) # "string"

\* the validation of save(): the message thrown, "" when the arguments pass
saveInvalid(docId, title, data, userId) ==
    IF InvalidString(docId) THEN "Invalid docId provided"
    ELSE IF InvalidString(title) THEN "Invalid title provided"
    ELSE IF ~Truthy(data) \/ TypeOf(data) # "object" THEN "Invalid data provided"
    ELSE IF InvalidString(userId) THEN "Invalid userId provided"
    ELSE ""

\* the validation of getByUser() and of clearUserDocuments()
userIdInvalid(userId) ==
    IF InvalidString(userId) THEN "Invalid userId provided" ELSE ""

\* the validation of getById() and of delete()
idInvalid(id) ==
    IF ~Truthy(id) \/ (TypeOf(id) # "string" /\ TypeOf(id) # "number")
    THEN "Invalid id provided"
    ELSE ""

\* data.docType: a property read (undefined when the property is absent)
GetProp(v, k) ==
    IF v.t = "object" /\ k \in DOMAIN v.m THEN v.m[k] ELSE Undefined

Unknown == Str(<<"u", "n", "k", "n", "o", "w", "n">>)

\* data.docType || 'unknown'
docTypeOf(data) ==
    LET d == GetProp(data, "docType") IN IF Truthy(d) THEN d ELSE Unknown

\* new Date().toISOString(): the instant, as text
toISOString(time) == [iso |-> time]

\* (a variant of makeDocument that escapes the title as it escapes the data)
makeDocumentEscapingTitle(docId, title, data, userId, time) ==
    [docId |-> Str(Trim(docId.s)),
     title |-> Str(EscapeHtml(Trim(title.s))),
     data |-> sanitizeData(data),
     userId |-> Str(Trim(userId.s)),
     timestamp |-> time,
     createdAt |-> toISOString(time),
     docType |-> docTypeOf(data)]

\* the document literal of save(), built at clock value time
makeDocument(docId, title, data, userId, time) ==
    [docId |-> Str(Trim(docId.s)),
     title |-> Str(Trim(title.s)),
     data |-> sanitizeData(data),
     userId |-> Str(Trim(userId.s)),
     timestamp |-> time,
     createdAt |-> toISOString(time),
     docType |-> docTypeOf(data)]

\* the record the store keeps for a document added under generated key k
\* (keyPath 'id')
WithKey(doc, k) ==
    [id |-> k, docId |-> doc.docId, title |-> doc.title, data |-> doc.data,
     userId |-> doc.userId, timestamp |-> doc.timestamp,
     createdAt |-> doc.createdAt, docType |-> doc.docType]

\* the primary key an id argument denotes: generated keys are the integers
\* 1, 2, ...; a string or a non-integer number is the key of no record
KeyOf(id) == IF id.t = "number" /\ id.den = 1 THEN id.num ELSE 0

(***************************************************************************)
(* Sorting: Array.prototype.sort with a comparator is stable.              *)
(***************************************************************************)
\* (a variant of the comparator with its operands exchanged)
byTimestampAsc(a, b) == a.timestamp - b.timestamp

\* (a, b) => b.timestamp - a.timestamp
byTimestampDesc(a, b) == b.timestamp - a.timestamp

\* x inserted into the sorted sequence s behind every element that does not
\* compare after it
RECURSIVE InsertSorted(_, _)
InsertSorted(s, x) ==
    IF s = <<>> THEN <<x>>
    ELSE IF byTimestampDesc(Head(s), x) <= 0
         THEN <<Head(s)>> \o InsertSorted(Tail(s), x)
         ELSE <<x>> \o s

RECURSIVE sortDocs(_)
sortDocs(s) ==
    IF s = <<>> THEN <<>>
    ELSE InsertSorted(sortDocs(SubSeq(s, 1, Len(s) - 1)), s[Len(s)])

(***************************************************************************)
(* State.                                                                  *)
(***************************************************************************)
VARIABLES
    supported,  \* window.indexedDB is present
    db,         \* the database 'DocumentsDB': its version and object stores
    store,      \* the object store 'documents': primary key -> record
    keyGen,     \* the store's key generator: the next key it hands out
    undo,       \* the store and key generator as the running readwrite
                \* transaction found them (<<>>: none is running)
    queue,      \* the unfinished transactions (their calls), oldest first
    calls,      \* slot -> the call it holds: the async function's position,
                \* its promise and its transaction
    conns,      \* connections opened and not closed
    now,        \* the clock: the value Date.now() returned last
    faults,     \* I/O faults injected so far
    value,      \* the value handed to sanitizeData called on its own
    passes,     \* what sanitizeData returned for it, and for what it returned
    limiterCalls,  \* rateLimiter.calls: apiType -> the call times it keeps
    granted,    \* apiType -> the times at which canMakeCall returned true
    returned,   \* the apiType and the value of the last canMakeCall
    made,       \* the number of canMakeCall calls made
    typed,      \* form field -> its last input event: the value it carried
                \* and the event's number
    apiTimeout, \* form field -> field._apiTimeout: the pending timeout
    lookup,     \* the last populateLocationData call the autofill started
    inputs      \* the number of input events so far

\* the state of rateLimiter, and what its callers saw
limiterVars == <<limiterCalls, granted, returned, made>>

\* the form fields, their timeouts and the lookups started
autofillVars == <<typed, apiTimeout, lookup, inputs>>

vars ==
    <<supported, db, store, keyGen, undo, queue, calls, conns, now, faults,
      value, passes, limiterVars, autofillVars>>

\* One slot per call: the callers' calls, and the deletes clearUserDocuments
\* issues (each clearUserDocuments call at most one per record saved).
Slots == 1..(MaxCalls + (MaxCalls \div 2) * ((MaxCalls + 1) \div 2))

NoResult == [t |-> "none"]
NoDoc == [t |-> "none"]
Err(msg) == [t |-> "error", msg |-> msg]
\* the array of records getByUser resolves with
Docs(s) == [t |-> "docs", docs |-> s]
\* the record getById resolves with
Doc(r) == [t |-> "doc", doc |-> r]

Idle ==
    [op |-> "idle", args |-> <<>>, open |-> "none", tx |-> "none",
     status |-> "none", result |-> NoResult, parent |-> 0, doc |-> NoDoc,
     key |-> 0, docs |-> <<>>]

Used == {c \in Slots : calls[c].op # "idle"}
\* slots are taken in order
NextSlot == Cardinality(Used) + 1

\* the schema onupgradeneeded creates
Schema ==
    [version |-> 1,
     stores |-> {[name |-> "documents", keyPath |-> "id", autoIncrement |-> TRUE,
                  indexes |-> {"docId", "userId", "timestamp", "docType"}]}]

\* An async function runs to its first await: the validation, then initDB()
\* up to indexedDB.open(). invalid is the validation's message ("": passed).
Entered(op, args, parent, invalid) ==
    IF invalid # ""
    THEN [Idle EXCEPT !.op = op, !.args = args, !.parent = parent,
                      !.status = "rejected", !.result = Err(invalid)]
    ELSE IF ~supported
    THEN [Idle EXCEPT !.op = op, !.args = args, !.parent = parent,
                      !.status = "rejected",
                      !.result = Err("IndexedDB not supported in this browser")]
    ELSE [Idle EXCEPT !.op = op, !.args = args, !.parent = parent,
                      !.status = "pending", !.open = "pending"]

\* db.transaction(['documents'], mode)
Mode(c) == IF calls[c].op \in {"save", "delete"} THEN "readwrite" ELSE "readonly"

\* (a variant of CanStart in which the readwrite transaction created last goes
\* first)
CanStartNewestFirst(c) ==
    /\ calls[c].tx = "queued"
    /\ undo = <<>>
    /\ IF Mode(c) = "readwrite" THEN queue[Len(queue)] = c
       ELSE \A i \in 1..Len(queue) :
              (\E j \in i..Len(queue) : queue[j] = c) => Mode(queue[i]) = "readonly"

\* A transaction starts when no earlier unfinished transaction overlaps it:
\* a readwrite one when it is the oldest, a readonly one when only readonly
\* ones are older.
CanStart(c) ==
    /\ calls[c].tx = "queued"
    /\ IF Mode(c) = "readwrite" THEN queue[1] = c
       ELSE \A i \in 1..Len(queue) :
              (\E j \in i..Len(queue) : queue[j] = c) => Mode(queue[i]) = "readonly"

Without(q, c) == SelectSeq(q, LAMBDA x : x # c)

\* (a variant of Settled that counts the truthy results of the deletes, of
\* which there are none: delete resolves with undefined)
SettledCountingResults(cs, d) ==
    LET p == cs[d].parent IN
    IF p = 0 \/ cs[p].status # "pending" THEN cs
    ELSE IF cs[d].status = "rejected"
    THEN [cs EXCEPT ![p].status = "rejected", ![p].result = cs[d].result]
    ELSE IF \A e \in Slots : cs[e].parent = p => cs[e].status = "resolved"
    THEN [cs EXCEPT ![p].status = "resolved", ![p].result = Num(0)]
    ELSE cs

\* (a variant of Settled that waits for every delete to settle, as
\* Promise.allSettled does, and then resolves)
SettledWhenAllSettled(cs, d) ==
    LET p == cs[d].parent IN
    IF p = 0 \/ cs[p].status # "pending" THEN cs
    ELSE IF \A e \in Slots : cs[e].parent = p => cs[e].status # "pending"
    THEN [cs EXCEPT ![p].status = "resolved", ![p].result = Num(Len(cs[p].docs))]
    ELSE cs

\* Promise.all over the deletes of clearUserDocuments: when child d settles,
\* its pending parent rejects with d's error, or resolves with docs.length
\* once every delete has resolved.
Settled(cs, d) ==
    LET p == cs[d].parent IN
    IF p = 0 \/ cs[p].status # "pending" THEN cs
    ELSE IF cs[d].status = "rejected"
    THEN [cs EXCEPT ![p].status = "rejected", ![p].result = cs[d].result]
    ELSE IF \A e \in Slots : cs[e].parent = p => cs[e].status = "resolved"
    THEN [cs EXCEPT ![p].status = "resolved", ![p].result = Num(Len(cs[p].docs))]
    ELSE cs

\* the apiTypes canMakeCall is called with
ApiTypes == {"exchange", "geo"}

\* rateLimiter as the script creates it: calls: new Map()
LimiterCreated ==
    /\ limiterCalls = <<>>
    /\ granted = [a \in ApiTypes |-> <<>>]
    /\ returned = NoResult
    /\ made = 0

\* the fields of the form; those with the attribute data-api-trigger
Fields == {"from_pincode", "to_zipcode", "notes"}
Triggers == {"from_pincode", "to_zipcode"}

NoInput == [t |-> "none"]
NoTimer == [t |-> "none"]

\* the form before any input event
AutofillInstalled ==
    /\ typed = [f \in Fields |-> NoInput]
    /\ apiTimeout = [f \in Fields |-> NoTimer]
    /\ lookup = NoResult
    /\ inputs = 0

Init ==
    /\ AutofillInstalled
    /\ LimiterCreated
    /\ supported \in BOOLEAN
    /\ db = [version |-> 0, stores |-> {}]
    /\ store = <<>>
    /\ keyGen = 1
    /\ undo = <<>>
    /\ queue = <<>>
    /\ calls = [c \in Slots |-> Idle]
    /\ conns = 0
    /\ now = 1
    /\ faults = 0
    /\ value = Undefined
    /\ passes = <<>>

(***************************************************************************)
(* The calls: each public operation up to its first await.                 *)
(***************************************************************************)
Enter(op, args, invalid) ==
    /\ Cardinality({c \in Used : calls[c].parent = 0}) < MaxCalls
    /\ calls' = [calls EXCEPT ![NextSlot] = Entered(op, args, 0, invalid)]
    /\ UNCHANGED <<autofillVars, limiterVars, value, passes, supported, db, store, keyGen, undo, queue, conns, now, faults>>

CallSave(docId, title, data, userId) ==
    Enter("save", <<docId, title, data, userId>>,
          saveInvalid(docId, title, data, userId))

CallGetByUser(userId) == Enter("getByUser", <<userId>>, userIdInvalid(userId))

CallGetById(id) == Enter("getById", <<id>>, idInvalid(id))

CallDelete(id) == Enter("delete", <<id>>, idInvalid(id))

\* clearUserDocuments validates, then calls getByUser, which validates again
CallClear(userId) ==
    Enter("clearUserDocuments", <<userId>>, userIdInvalid(userId))

(***************************************************************************)
(* initDB.                                                                 *)
(***************************************************************************)
\* open requests on one database are served in the order they were made
OpenTurn(c) ==
    /\ calls[c].open = "pending"
    /\ \A e \in Slots : e < c => calls[e].open # "pending"

\* request.onupgradeneeded: the first open creates the store and its indexes
UpgradeNeeded(c) ==
    /\ OpenTurn(c)
    /\ db.version = 0
    /\ db' = (IF \E s \in db.stores : s.name = "documents" THEN [db EXCEPT !.version = 1]
              ELSE Schema)
    /\ UNCHANGED <<autofillVars, limiterVars, value, passes, supported, store, keyGen, undo, queue, calls, conns, now, faults>>

\* (a variant of Begun in which save builds its document from arguments kept
\* in one place shared by all calls: those of the save called last)
BegunWithSharedArguments(c, time) ==
    LET last == CHOOSE m \in Used : /\ calls[m].op = "save"
                                    /\ \A e \in Used : calls[e].op = "save" => e <= m
        a == calls[last].args
    IN
    IF calls[c].op = "save"
    THEN [calls[c] EXCEPT !.open = "open", !.tx = "queued",
                          !.doc = makeDocument(a[1], a[2], a[3], a[4], time)]
    ELSE [calls[c] EXCEPT !.open = "open", !.tx = "queued"]

\* what the async function does once initDB() has resolved: it creates its
\* transaction and places its one request
\* (save reads the clock, at time, for its document)
Begun(c, time) ==
    LET a == calls[c].args IN
    IF calls[c].op = "save"
    THEN [calls[c] EXCEPT !.open = "open", !.tx = "queued",
                          !.doc = makeDocument(a[1], a[2], a[3], a[4], time)]
    ELSE [calls[c] EXCEPT !.open = "open", !.tx = "queued"]

\* the values Date.now() may return: the clock does not run backwards
ClockReadings == now..MaxTime

\* request.onsuccess of indexedDB.open
OpenSuccess(c) ==
    /\ OpenTurn(c)
    /\ db.version = 1
    /\ conns' = conns + 1
    /\ \E time \in (IF calls[c].op = "save" THEN ClockReadings ELSE {now}) :
         /\ now' = time
         /\ calls' = [calls EXCEPT ![c] = Begun(c, time)]
    /\ queue' = Append(queue, c)
    /\ UNCHANGED <<autofillVars, limiterVars, value, passes, supported, db, store, keyGen, undo, faults>>

\* request.onerror of indexedDB.open
OpenError(c) ==
    /\ OpenTurn(c)
    /\ faults < MaxFaults
    /\ faults' = faults + 1
    /\ calls' = Settled([calls EXCEPT ![c].open = "failed", ![c].status = "rejected",
                                      ![c].result = Err("Database error")], c)
    /\ UNCHANGED <<autofillVars, limiterVars, value, passes, supported, db, store, keyGen, undo, queue, conns, now>>

(***************************************************************************)
(* save: the readwrite transaction and its store.add(document).            *)
(***************************************************************************)
\* (a variant of AddSuccess whose key is the lowest key no record has)
AddSuccessLowestFreeKey(c) ==
    LET free == CHOOSE k \in 1..(Cardinality(DOMAIN store) + 1) : k \notin DOMAIN store IN
    /\ calls[c].op = "save"
    /\ CanStart(c)
    /\ undo' = <<[store |-> store, keyGen |-> keyGen]>>
    /\ store' = [k \in DOMAIN store \cup {free} |->
                    IF k = free THEN WithKey(calls[c].doc, free) ELSE store[k]]
    /\ keyGen' = keyGen + 1
    /\ calls' = [calls EXCEPT ![c].tx = "active", ![c].key = free]
    /\ UNCHANGED <<autofillVars, limiterVars, value, passes, supported, db, queue, conns, now, faults>>

\* store.add(document) succeeds: the key generator assigns the key; no
\* handler of save() runs (request.onsuccess is not set)
AddSuccess(c) ==
    /\ calls[c].op = "save"
    /\ CanStart(c)
    /\ undo' = <<[store |-> store, keyGen |-> keyGen]>>
    /\ store' = [k \in DOMAIN store \cup {keyGen} |->
                    IF k = keyGen THEN WithKey(calls[c].doc, keyGen) ELSE store[k]]
    /\ keyGen' = keyGen + 1
    /\ calls' = [calls EXCEPT ![c].tx = "active", ![c].key = keyGen]
    /\ UNCHANGED <<autofillVars, limiterVars, value, passes, supported, db, queue, conns, now, faults>>

\* store.add(document) fails: request.onerror rejects, the error event reaches
\* transaction.onerror (the promise is settled already), the transaction
\* aborts
AddError(c) ==
    /\ calls[c].op = "save"
    /\ CanStart(c)
    /\ faults < MaxFaults
    /\ faults' = faults + 1
    /\ calls' = [calls EXCEPT ![c].tx = "aborted", ![c].status = "rejected",
                              ![c].result = Err("Add operation failed")]
    /\ queue' = Without(queue, c)
    /\ UNCHANGED <<autofillVars, limiterVars, value, passes, supported, db, store, keyGen, undo, conns, now>>

\* transaction.oncomplete of save: resolve(request.result)
SaveComplete(c) ==
    /\ calls[c].op = "save"
    /\ calls[c].tx = "active"
    /\ undo' = <<>>
    /\ queue' = Without(queue, c)
    /\ calls' = [calls EXCEPT ![c].tx = "committed", ![c].status = "resolved",
                              ![c].result = Num(calls[c].key)]
    /\ UNCHANGED <<autofillVars, limiterVars, value, passes, supported, db, store, keyGen, conns, now, faults>>

\* The commit fails after the request succeeded: the transaction is rolled
\* back and only its abort event fires, which save() does not handle.
SaveAbort(c) ==
    /\ calls[c].op = "save"
    /\ calls[c].tx = "active"
    /\ faults < MaxFaults
    /\ faults' = faults + 1
    /\ store' = undo[1].store
    /\ keyGen' = undo[1].keyGen
    /\ undo' = <<>>
    /\ queue' = Without(queue, c)
    /\ calls' = [calls EXCEPT ![c].tx = "aborted"]
    /\ UNCHANGED <<autofillVars, limiterVars, value, passes, supported, db, conns, now>>

(***************************************************************************)
(* getByUser, also as the first step of clearUserDocuments.                *)
(***************************************************************************)
\* the keys of S in ascending order
RECURSIVE Ascending(_)
Ascending(S) ==
    IF S = {} THEN <<>>
    ELSE LET m == CHOOSE x \in S : \A y \in S : x <= y
         IN  <<m>> \o Ascending(S \ {m})

\* (a variant of getAll that reads the whole store, not the index entry)
getAllRecords(key) ==
    LET ks == Ascending(DOMAIN store)
    IN  [i \in 1..Len(ks) |-> store[ks[i]]]

\* index.getAll(key) on the userId index: the records whose userId is key, in
\* primary-key order
getAll(key) ==
    LET ks == Ascending({k \in DOMAIN store : store[k].userId = key})
    IN  [i \in 1..Len(ks) |-> store[ks[i]]]

\* (a variant of Spawned that leaves out the last record read)
SpawnedButLast(cs, p, docs) ==
    [c \in Slots |->
        IF c \in NextSlot..(NextSlot + Len(docs) - 2)
        THEN Entered("delete", <<Num(docs[c - NextSlot + 1].id)>>, p,
                     idInvalid(Num(docs[c - NextSlot + 1].id)))
        ELSE cs[c]]

\* the deletes clearUserDocuments issues, one call per record read, each run
\* to its first await
Spawned(cs, p, docs) ==
    [c \in Slots |->
        IF c \in NextSlot..(NextSlot + Len(docs) - 1)
        THEN Entered("delete", <<Num(docs[c - NextSlot + 1].id)>>, p,
                     idInvalid(Num(docs[c - NextSlot + 1].id)))
        ELSE cs[c]]

\* request.onsuccess of index.getAll: sort and resolve; clearUserDocuments
\* goes on to docs.map(doc => this.delete(doc.id)) and Promise.all
GetAllSuccess(c) ==
    /\ calls[c].op \in {"getByUser", "clearUserDocuments"}
    /\ CanStart(c)
    /\ LET docs == sortDocs(getAll(Str(Trim(calls[c].args[1].s)))) IN
       IF calls[c].op = "getByUser"
       THEN calls' = [calls EXCEPT ![c].tx = "committed", ![c].status = "resolved",
                                   ![c].result = Docs(docs)]
       ELSE calls' = Spawned(
                   [calls EXCEPT ![c].tx = "committed", ![c].docs = docs,
                                 ![c].status = IF docs = <<>> THEN "resolved" ELSE "pending",
                                 ![c].result = IF docs = <<>> THEN Num(0) ELSE NoResult],
                   c, docs)
    /\ queue' = Without(queue, c)
    /\ UNCHANGED <<autofillVars, limiterVars, value, passes, supported, db, store, keyGen, undo, conns, now, faults>>

\* request.onerror of index.getAll
GetAllError(c) ==
    /\ calls[c].op \in {"getByUser", "clearUserDocuments"}
    /\ CanStart(c)
    /\ faults < MaxFaults
    /\ faults' = faults + 1
    /\ calls' = [calls EXCEPT ![c].tx = "aborted", ![c].status = "rejected",
                              ![c].result = Err("GetAll failed")]
    /\ queue' = Without(queue, c)
    /\ UNCHANGED <<autofillVars, limiterVars, value, passes, supported, db, store, keyGen, undo, conns, now>>

(***************************************************************************)
(* getById.                                                                *)
(***************************************************************************)
\* (a variant of GetSuccess that rejects when no record has the key)
GetSuccessRejectingMissing(c) ==
    /\ calls[c].op = "getById"
    /\ CanStart(c)
    /\ LET k == KeyOf(calls[c].args[1]) IN
       calls' = IF k \in DOMAIN store
                THEN [calls EXCEPT ![c].tx = "committed", ![c].status = "resolved",
                                   ![c].result = Doc(store[k])]
                ELSE [calls EXCEPT ![c].tx = "committed", ![c].status = "rejected",
                                   ![c].result = Err("Get failed")]
    /\ queue' = Without(queue, c)
    /\ UNCHANGED <<autofillVars, limiterVars, value, passes, supported, db, store, keyGen, undo, conns, now, faults>>

\* request.onsuccess of store.get(id): resolve(request.result || null)
GetSuccess(c) ==
    /\ calls[c].op = "getById"
    /\ CanStart(c)
    /\ LET k == KeyOf(calls[c].args[1]) IN
       calls' = [calls EXCEPT ![c].tx = "committed", ![c].status = "resolved",
                              ![c].result = IF k \in DOMAIN store THEN Doc(store[k])
                                            ELSE Null]
    /\ queue' = Without(queue, c)
    /\ UNCHANGED <<autofillVars, limiterVars, value, passes, supported, db, store, keyGen, undo, conns, now, faults>>

\* request.onerror of store.get(id)
GetError(c) ==
    /\ calls[c].op = "getById"
    /\ CanStart(c)
    /\ faults < MaxFaults
    /\ faults' = faults + 1
    /\ calls' = [calls EXCEPT ![c].tx = "aborted", ![c].status = "rejected",
                              ![c].result = Err("Get failed")]
    /\ queue' = Without(queue, c)
    /\ UNCHANGED <<autofillVars, limiterVars, value, passes, supported, db, store, keyGen, undo, conns, now>>

(***************************************************************************)
(* delete: the readwrite transaction and its store.delete(id).             *)
(***************************************************************************)
\* (a variant of DeleteSuccess that blanks the record's title and data and
\* keeps the record)
DeleteSuccessBlanking(c) ==
    /\ calls[c].op = "delete"
    /\ CanStart(c)
    /\ undo' = <<[store |-> store, keyGen |-> keyGen]>>
    /\ store' = [k \in DOMAIN store |->
                    IF k = KeyOf(calls[c].args[1])
                    THEN [store[k] EXCEPT !.title = Str(<<>>), !.data = EmptyObj]
                    ELSE store[k]]
    /\ calls' = [calls EXCEPT ![c].tx = "active"]
    /\ UNCHANGED <<autofillVars, limiterVars, value, passes, supported, db, keyGen, queue, conns, now, faults>>

\* store.delete(id) succeeds, whether or not a record has that key; no
\* handler of delete() runs
DeleteSuccess(c) ==
    /\ calls[c].op = "delete"
    /\ CanStart(c)
    /\ undo' = <<[store |-> store, keyGen |-> keyGen]>>
    /\ store' = [k \in DOMAIN store \ {KeyOf(calls[c].args[1])} |-> store[k]]
    /\ calls' = [calls EXCEPT ![c].tx = "active"]
    /\ UNCHANGED <<autofillVars, limiterVars, value, passes, supported, db, keyGen, queue, conns, now, faults>>

\* store.delete(id) fails: request.onerror rejects, the transaction aborts
DeleteError(c) ==
    /\ calls[c].op = "delete"
    /\ CanStart(c)
    /\ faults < MaxFaults
    /\ faults' = faults + 1
    /\ calls' = Settled([calls EXCEPT ![c].tx = "aborted", ![c].status = "rejected",
                                      ![c].result = Err("Delete failed")], c)
    /\ queue' = Without(queue, c)
    /\ UNCHANGED <<autofillVars, limiterVars, value, passes, supported, db, store, keyGen, undo, conns, now>>

\* (a variant of DeleteComplete that rejects when the delete removed nothing)
DeleteCompleteStrict(c) ==
    /\ calls[c].op = "delete"
    /\ calls[c].tx = "active"
    /\ undo' = <<>>
    /\ queue' = Without(queue, c)
    /\ calls' = Settled(
          IF undo[1].store = store
          THEN [calls EXCEPT ![c].tx = "committed", ![c].status = "rejected",
                             ![c].result = Err("Delete failed")]
          ELSE [calls EXCEPT ![c].tx = "committed", ![c].status = "resolved",
                             ![c].result = Undefined], c)
    /\ UNCHANGED <<autofillVars, limiterVars, value, passes, supported, db, store, keyGen, conns, now, faults>>

\* transaction.oncomplete of delete: resolve()
DeleteComplete(c) ==
    /\ calls[c].op = "delete"
    /\ calls[c].tx = "active"
    /\ undo' = <<>>
    /\ queue' = Without(queue, c)
    /\ calls' = Settled([calls EXCEPT ![c].tx = "committed", ![c].status = "resolved",
                                      ![c].result = Undefined], c)
    /\ UNCHANGED <<autofillVars, limiterVars, value, passes, supported, db, store, keyGen, conns, now, faults>>

\* The commit fails after the request succeeded: rolled back, abort event
\* only, which delete() does not handle.
DeleteAbort(c) ==
    /\ calls[c].op = "delete"
    /\ calls[c].tx = "active"
    /\ faults < MaxFaults
    /\ faults' = faults + 1
    /\ store' = undo[1].store
    /\ keyGen' = undo[1].keyGen
    /\ undo' = <<>>
    /\ queue' = Without(queue, c)
    /\ calls' = [calls EXCEPT ![c].tx = "aborted"]
    /\ UNCHANGED <<autofillVars, limiterVars, value, passes, supported, db, conns, now>>

(***************************************************************************)
(* Spec: concurrent callers; arguments that pass validation.               *)
(***************************************************************************)
DocA == Obj([k \in {"note", "docType"} |->
               IF k = "note" THEN Str(<<"a", "/", "b">>) ELSE Str(<<"i", "n", "v">>)])

SaveArgs ==
    { <<Str(<<" ", "d">>), Str(<<"<", "t", ">", " ">>), DocA, Str(<<"u", " ">>)>>,
      <<Str(<<"d">>), Str(<<"t">>), EmptyObj, Str(<<"v">>)>> }

UserIdArgs == {Str(<<" ", "u">>)}

IdArgs == {Num(1)}

Next ==
    \/ \E a \in SaveArgs : CallSave(a[1], a[2], a[3], a[4])
    \/ \E u \in UserIdArgs : CallGetByUser(u)
    \/ \E i \in IdArgs : CallGetById(i)
    \/ \E i \in IdArgs : CallDelete(i)
    \/ \E u \in UserIdArgs : CallClear(u)
    \/ \E c \in Slots :
         \/ UpgradeNeeded(c)
         \/ OpenSuccess(c)
         \/ OpenError(c)
         \/ AddSuccess(c)
         \/ AddError(c)
         \/ SaveComplete(c)
         \/ SaveAbort(c)
         \/ GetAllSuccess(c)
         \/ GetAllError(c)
         \/ GetSuccess(c)
         \/ GetError(c)
         \/ DeleteSuccess(c)
         \/ DeleteError(c)
         \/ DeleteComplete(c)
         \/ DeleteAbort(c)

Spec == Init /\ [][Next]_vars

(***************************************************************************)
(* SpecArgs: one caller, which waits for each call to settle before the    *)
(* next; arguments of every kind, valid and invalid.                       *)
(***************************************************************************)
AnySaveArgs ==
    SaveArgs \cup
    { <<Str(<<" ">>), Str(<<"t">>), EmptyObj, Str(<<"u">>)>>,
      <<Str(<<"d">>), Str(<<" ", "\t">>), EmptyObj, Str(<<"u">>)>>,
      <<Str(<<"d">>), Str(<<"t">>), EmptyObj, Str(<<"\n">>)>>,
      <<Str(<<>>), Str(<<"t">>), EmptyObj, Str(<<"u">>)>>,
      <<Num(5), Str(<<"t">>), EmptyObj, Str(<<"u">>)>>,
      <<Str(<<"d">>), Str(<<>>), EmptyObj, Str(<<"u">>)>>,
      <<Str(<<"d">>), Null, EmptyObj, Str(<<"u">>)>>,
      <<Str(<<"d">>), Str(<<"t">>), Null, Str(<<"u">>)>>,
      <<Str(<<"d">>), Str(<<"t">>), Str(<<"x">>), Str(<<"u">>)>>,
      <<Str(<<"d">>), Str(<<"t">>), Undefined, Str(<<"u">>)>>,
      <<Str(<<"d">>), Str(<<"t">>), EmptyObj, Str(<<>>)>>,
      <<Str(<<"d">>), Str(<<"t">>), EmptyObj, Undefined>>,
      <<Str(<<"d">>), Str(<<"t">>), Obj([k \in {"docType"} |-> Num(5)]), Str(<<"u">>)>>,
      <<Str(<<"d">>), Str(<<"t">>), Obj([k \in {"docType"} |-> Str(<<>>)]), Str(<<"u">>)>>,
      <<Str(<<"d">>), Str(<<"t">>), Arr(<<Str(<<"<">>)>>), Str(<<"u">>)>> }

AnyUserIdArgs == UserIdArgs \cup {Str(<<"v">>), Str(<<>>), Null, Num(1), Undefined}

AnyIdArgs ==
    IdArgs \cup {Num(2), Str(<<"x">>), Half(3), Num(0), Str(<<>>), Null, Undefined,
                 EmptyObj}

\* no call is in flight
Quiet == \A c \in Used : calls[c].status # "pending"

NextArgs ==
    \/ /\ Quiet
       /\ Cardinality(Used) < MaxArgCalls
       /\ \/ \E a \in AnySaveArgs : CallSave(a[1], a[2], a[3], a[4])
          \/ \E u \in AnyUserIdArgs : CallGetByUser(u)
          \/ \E i \in AnyIdArgs : CallGetById(i)
          \/ \E i \in AnyIdArgs : CallDelete(i)
          \/ \E u \in AnyUserIdArgs : CallClear(u)
    \/ \E c \in Slots :
         \/ UpgradeNeeded(c)
         \/ OpenSuccess(c)
         \/ OpenError(c)
         \/ AddSuccess(c)
         \/ AddError(c)
         \/ SaveComplete(c)
         \/ SaveAbort(c)
         \/ GetAllSuccess(c)
         \/ GetAllError(c)
         \/ GetSuccess(c)
         \/ GetError(c)
         \/ DeleteSuccess(c)
         \/ DeleteError(c)
         \/ DeleteComplete(c)
         \/ DeleteAbort(c)

SpecArgs == Init /\ [][NextArgs]_vars

(***************************************************************************)
(* SpecSanitize: sanitizeData called on its own, on a structured value (a  *)
(* nesting of mappings and sequences over strings, numbers, booleans and   *)
(* null), and again on what it returned.                                   *)
(***************************************************************************)
Chars == {"<", ">", "\"", "'", "/", "&", "a"}

\* the strings of at most n characters
Strings(n) == UNION {[1..k -> Chars] : k \in 0..n}

Leaves ==
    {Str(s) : s \in Strings(MaxLen)}
    \cup {Num(0), Num(1), Bool(TRUE), Bool(FALSE), Null}

\* the mappings over the keys a and b, and the sequences of at most two
\* elements, with values from V
Mappings(V) == {Obj(m) : m \in UNION {[K -> V] : K \in SUBSET {"a", "b"}}}
Sequences(V) == {Arr(a) : a \in UNION {[1..n -> V] : n \in 0..2}}

\* the structured values nested d deep: mappings and sequences of leaves, and
\* these wrapped in one-entry mappings and one-element sequences
RECURSIVE Structured(_)
Structured(d) ==
    IF d <= 1 THEN Mappings(Leaves) \cup Sequences(Leaves)
    ELSE LET V == Structured(d - 1)
         IN  V \cup {Obj([k \in {"a"} |-> v]) : v \in V} \cup {Arr(<<v>>) : v \in V}

InitSanitize ==
    /\ AutofillInstalled
    /\ LimiterCreated
    /\ supported = TRUE
    /\ db = [version |-> 0, stores |-> {}]
    /\ store = <<>>
    /\ keyGen = 1
    /\ undo = <<>>
    /\ queue = <<>>
    /\ calls = [c \in Slots |-> Idle]
    /\ conns = 0
    /\ now = 1
    /\ faults = 0
    /\ value \in Structured(MaxDepth)
    /\ passes = <<>>

\* DocumentDB.sanitizeData(value), then DocumentDB.sanitizeData of the result
Sanitize ==
    /\ Len(passes) < MaxPasses
    /\ passes' = Append(passes, sanitizeData(IF passes = <<>> THEN value
                                             ELSE passes[Len(passes)]))
    /\ UNCHANGED <<autofillVars, limiterVars, value, supported, db, store, keyGen, undo, queue,
                   calls, conns, now, faults>>

NextSanitize == Sanitize

SpecSanitize == InitSanitize /\ [][NextSanitize]_vars

(***************************************************************************)
(* SpecSaves: concurrent save calls with valid arguments and no fault. The *)
(* host delivers every event it owes (the open request's, the             *)
(* transaction's); the callers need not call.                              *)
(***************************************************************************)
\* the host's next event for call c when nothing fails
Delivered(c) ==
    \/ UpgradeNeeded(c)
    \/ OpenSuccess(c)
    \/ AddSuccess(c)
    \/ SaveComplete(c)

NextSaves ==
    \/ \E a \in SaveArgs : CallSave(a[1], a[2], a[3], a[4])
    \/ \E c \in Slots : Delivered(c)

SpecSaves ==
    Init /\ [][NextSaves]_vars /\ WF_vars(\E c \in Slots : Delivered(c))

(***************************************************************************)
(* SpecLimiter: rateLimiter.canMakeCall, called at times that do not       *)
(* decrease.                                                               *)
(***************************************************************************)
\* rateLimiter.maxCalls
maxCalls == 10
\* rateLimiter.timeWindow, in ms
timeWindow == 60000

\* the values Date.now() returns in a run of SpecLimiter, in ms: an instant,
\* the next, and the instants around the end of the window that begins at 0
Instants == {0, 1, 59999, 60000, 60001}

\* this.calls.get(apiType) || []
callsOf(apiType) ==
    IF apiType \in DOMAIN limiterCalls THEN limiterCalls[apiType] ELSE <<>>

\* this.calls.set(apiType, list)
callsSet(apiType, list) ==
    [a \in DOMAIN limiterCalls \cup {apiType} |->
        IF a = apiType THEN list ELSE limiterCalls[a]]

\* (a variant of canMakeCall that compares with > where the code has >=)
canMakeCallOneMore(apiType, time) ==
    LET recentCalls == SelectSeq(callsOf(apiType), LAMBDA t : time - t < timeWindow) IN
    /\ made < MaxLimiterCalls
    /\ time >= now
    /\ now' = time
    /\ made' = made + 1
    /\ IF Len(recentCalls) > maxCalls
       THEN /\ limiterCalls' = callsSet(apiType, recentCalls)
            /\ returned' = [apiType |-> apiType, value |-> FALSE]
            /\ granted' = granted
       ELSE /\ limiterCalls' = callsSet(apiType, Append(recentCalls, time))
            /\ returned' = [apiType |-> apiType, value |-> TRUE]
            /\ granted' = [granted EXCEPT ![apiType] = Append(@, time)]
    /\ UNCHANGED <<autofillVars, value, passes, supported, db, store, keyGen, undo,
                   queue, calls, conns, faults>>

\* rateLimiter.canMakeCall(apiType), with Date.now() returning time
canMakeCall(apiType, time) ==
    LET recentCalls == SelectSeq(callsOf(apiType), LAMBDA t : time - t < timeWindow) IN
    /\ made < MaxLimiterCalls
    /\ time >= now
    /\ now' = time
    /\ made' = made + 1
    /\ IF Len(recentCalls) >= maxCalls
       THEN /\ limiterCalls' = callsSet(apiType, recentCalls)
            /\ returned' = [apiType |-> apiType, value |-> FALSE]
            /\ granted' = granted
       ELSE /\ limiterCalls' = callsSet(apiType, Append(recentCalls, time))
            /\ returned' = [apiType |-> apiType, value |-> TRUE]
            /\ granted' = [granted EXCEPT ![apiType] = Append(@, time)]
    /\ UNCHANGED <<autofillVars, value, passes, supported, db, store, keyGen, undo,
                   queue, calls, conns, faults>>

\* the document store is not used
StoreUnused ==
    /\ supported = TRUE
    /\ db = [version |-> 0, stores |-> {}]
    /\ store = <<>>
    /\ keyGen = 1
    /\ undo = <<>>
    /\ queue = <<>>
    /\ calls = [c \in Slots |-> Idle]
    /\ conns = 0
    /\ faults = 0
    /\ value = Undefined
    /\ passes = <<>>

InitLimiter ==
    /\ StoreUnused
    /\ AutofillInstalled
    /\ LimiterCreated
    /\ now = 0

NextLimiter == \E a \in ApiTypes, time \in Instants : canMakeCall(a, time)

SpecLimiter == InitLimiter /\ [][NextLimiter]_vars

(***************************************************************************)
(* SpecAutofill: the input listener of initializePincodeAutofill and the   *)
(* timeouts it sets.                                                       *)
(***************************************************************************)
\* the delay of the setTimeout, in ms
debounce == 500

\* the time between two moments at which something happens, in ms
Paces == {250}

Digits == {"0", "1", "2", "3", "4", "5", "6", "7", "8", "9"}

\* /^[0-9]{6}$/.test(s), for a trimmed s
SixDigits(s) == Len(s) = 6 /\ \A i \in 1..Len(s) : s[i] \in Digits

\* the values the user types
InputValues ==
    { Str(<<"5", "6", "0", "0", "0", "1">>),
      Str(<<" ", "1", "1", "0", "0", "0", "1", " ">>),
      Str(<<"5", "6", "0", "0", "0", "1", "2">>),
      Str(<<"1", "2">>),
      Str(<<" ">>) }

\* the values of the country field next to a postal-code field
CountryValues == {"", "USA"}

\* field.id.replace(/_pincode$|_zipcode$/, '')
fieldPrefix(f) ==
    CASE f = "from_pincode" -> "from"
      [] f = "to_zipcode" -> "to"
      [] OTHER -> f

\* countryField?.value || 'INDIA'
countryOf(countryValue) == IF countryValue = "" THEN "INDIA" ELSE countryValue

\* the listener returns before it touches the timeout: no attribute, an empty
\* value, or a value that fails the country's format
Ignored(f, v, country) ==
    \/ f \notin Triggers
    \/ Trim(v.s) = <<>>
    \/ country = "INDIA" /\ ~SixDigits(Trim(v.s))
    \/ country # "INDIA" /\ Len(Trim(v.s)) < 3

\* an input event on field f carrying v, the country field holding
\* countryValue
InputEvent(f, v, countryValue) ==
    LET country == countryOf(countryValue) IN
    /\ inputs < MaxInputs
    /\ inputs' = inputs + 1
    /\ typed' = [typed EXCEPT ![f] = [t |-> "input", value |-> v, event |-> inputs + 1]]
    /\ IF Ignored(f, v, country)
       THEN apiTimeout' = apiTimeout
       ELSE apiTimeout' =
              [apiTimeout EXCEPT ![f] =
                 [t |-> "timeout", value |-> Str(Trim(v.s)), country |-> country,
                  fieldPrefix |-> fieldPrefix(f), event |-> inputs + 1,
                  due |-> now + debounce]]
    /\ UNCHANGED <<lookup, limiterVars, value, passes, supported, db, store, keyGen,
                   undo, queue, calls, conns, now, faults>>

\* the timeout of field f fires: populateLocationData(value, country,
\* fieldPrefix) is called with what the timeout's closure holds (shown and
\* last: what the field's last input event carried, trimmed, and that event's
\* number, at this moment)
TimeoutFires(f) ==
    /\ apiTimeout[f] # NoTimer
    /\ apiTimeout[f].due <= now
    /\ lookup' = [t |-> "lookup", value |-> apiTimeout[f].value,
                  country |-> apiTimeout[f].country,
                  fieldPrefix |-> apiTimeout[f].fieldPrefix,
                  event |-> apiTimeout[f].event,
                  shown |-> Str(Trim(typed[f].value.s)),
                  last |-> typed[f].event]
    /\ apiTimeout' = [apiTimeout EXCEPT ![f] = NoTimer]
    /\ UNCHANGED <<typed, inputs, limiterVars, value, passes, supported, db, store,
                   keyGen, undo, queue, calls, conns, now, faults>>

\* time passes while a timeout is pending, and not past the moment at which
\* one is due
TimePasses(d) ==
    /\ \E f \in Fields : apiTimeout[f] # NoTimer
    /\ \A f \in Fields : apiTimeout[f] # NoTimer => now + d <= apiTimeout[f].due
    /\ now' = now + d
    /\ UNCHANGED <<autofillVars, limiterVars, value, passes, supported, db, store,
                   keyGen, undo, queue, calls, conns, faults>>

InitAutofill ==
    /\ StoreUnused
    /\ LimiterCreated
    /\ AutofillInstalled
    /\ now = 0

NextAutofill ==
    \/ \E f \in Fields, v \in InputValues, c \in CountryValues : InputEvent(f, v, c)
    \/ \E f \in Fields : TimeoutFires(f)
    \/ \E d \in Paces : TimePasses(d)

SpecAutofill == InitAutofill /\ [][NextAutofill]_vars

(***************************************************************************)
(* The claims.                                                             *)
(***************************************************************************)
\* the deletes clearUserDocuments call p has issued
Children(p) == {d \in Slots : calls[d].parent = p}

\* the trimmed userId argument of a getByUser or clearUserDocuments call
UserKey(c) == Str(Trim(calls[c].args[1].s))

\* some delete of key k has removed it, or is removing it
Deleted(k) ==
    \E d \in Slots : /\ calls[d].op = "delete"
                     /\ KeyOf(calls[d].args[1]) = k
                     /\ calls[d].tx \in {"active", "committed"}

\* a delete of key k called before call g has removed it (calls are served in
\* the order they were made, so a later delete runs after g's read)
DeletedBefore(k, g) ==
    \E d \in Slots : /\ d < g
                     /\ calls[d].op = "delete"
                     /\ KeyOf(calls[d].args[1]) = k
                     /\ calls[d].tx \in {"active", "committed"}

RecordFields ==
    {"id", "docId", "title", "data", "userId", "timestamp", "createdAt", "docType"}

\* what the readers have been handed
Observed ==
    {calls[g].result.doc : g \in {h \in Slots : calls[h].result.t = "doc"}}
    \cup UNION {{calls[g].result.docs[i] : i \in 1..Len(calls[g].result.docs)} :
                g \in {h \in Slots : calls[h].result.t = "docs"}}

\* C1 (as claimed): a save call whose transaction has finished has either
\* committed, and then it has resolved with its generated key and the complete
\* record is in the collection under that key (until a delete removes it), or
\* aborted, and then it has rejected; it resolves only on commit; every record
\* a reader is handed has all its fields.
C1_SaveCommitsOrAborts ==
    /\ \A c \in Slots : calls[c].op = "save" =>
         /\ calls[c].status = "resolved" => calls[c].tx = "committed"
         /\ calls[c].tx = "committed" =>
              /\ calls[c].status = "resolved"
              /\ calls[c].result = Num(calls[c].key)
              /\ ~Deleted(calls[c].key) =>
                   /\ calls[c].key \in DOMAIN store
                   /\ store[calls[c].key] = WithKey(calls[c].doc, calls[c].key)
         /\ calls[c].tx = "aborted" => calls[c].status = "rejected"
    /\ \A r \in Observed : DOMAIN r = RecordFields

\* The part of C1 that does not depend on the abort handling: a save resolves
\* only on commit, with the key under which its complete record was stored; a
\* save whose transaction aborted never resolves; a rejected save has stored
\* nothing; readers are handed complete records only.
SaveAtomic ==
    /\ \A c \in Slots : calls[c].op = "save" =>
         /\ calls[c].status = "resolved" => calls[c].tx = "committed"
         /\ calls[c].tx = "committed" =>
              /\ calls[c].status = "resolved"
              /\ calls[c].result = Num(calls[c].key)
              /\ ~Deleted(calls[c].key) =>
                   /\ calls[c].key \in DOMAIN store
                   /\ store[calls[c].key] = WithKey(calls[c].doc, calls[c].key)
         /\ calls[c].status = "rejected" => calls[c].tx \in {"none", "aborted"}
    /\ \A r \in Observed : DOMAIN r = RecordFields

\* C2: when save has resolved with an id, a getById of that id called after it,
\* with no delete of the id before the read, resolves with a record whose
\* docId, title and userId are the trimmed arguments and whose data is
\* sanitizeData(data).
C2_RoundTrip ==
    \A s, g \in Slots :
        ( /\ calls[s].op = "save" /\ calls[s].status = "resolved"
          /\ calls[g].op = "getById" /\ calls[g].status = "resolved"
          /\ s < g
          /\ calls[g].args[1] = calls[s].result
          /\ ~DeletedBefore(calls[s].key, g) )
        => LET a == calls[s].args
               r == calls[g].result
           IN  /\ r.t = "doc"
               /\ r.doc.id = calls[s].key
               /\ r.doc.docId = Str(Trim(a[1].s))
               /\ r.doc.title = Str(Trim(a[2].s))
               /\ r.doc.userId = Str(Trim(a[4].s))
               /\ r.doc.data = sanitizeData(a[3])

\* C2's case: docId ' d', title '<t> ', note 'a/b' and userId 'u ' came back as
\* 'd', '<t>', 'a&#x2F;b' and 'u'.
C2_Witness ==
    \E s, g \in Slots :
        /\ calls[s].op = "save" /\ calls[s].status = "resolved"
        /\ calls[s].args[2] = Str(<<"<", "t", ">", " ">>)
        /\ calls[g].op = "getById" /\ calls[g].status = "resolved"
        /\ s < g
        /\ calls[g].args[1] = calls[s].result
        /\ calls[g].result.t = "doc"
        /\ calls[g].result.doc.docId = Str(<<"d">>)
        /\ calls[g].result.doc.title = Str(<<"<", "t", ">">>)
        /\ calls[g].result.doc.userId = Str(<<"u">>)
        /\ calls[g].result.doc.data.m["note"] =
               Str(<<"a", "&", "#", "x", "2", "F", ";", "b">>)

\* C3: the sequence getByUser resolves with is in non-increasing timestamp
\* order.
C3_NewestFirst ==
    \A g \in Slots :
        (calls[g].op = "getByUser" /\ calls[g].status = "resolved")
        => LET docs == calls[g].result.docs
           IN  \A i \in 1..(Len(docs) - 1) : docs[i].timestamp >= docs[i + 1].timestamp

\* C3's case: two saves of one user at T1 < T2; the later record comes first.
C3_Witness ==
    \E g \in Slots :
        /\ calls[g].op = "getByUser" /\ calls[g].status = "resolved"
        /\ Len(calls[g].result.docs) = 2
        /\ calls[g].result.docs[1].timestamp > calls[g].result.docs[2].timestamp
        /\ calls[g].result.docs[1].id > calls[g].result.docs[2].id

\* C4: the step that resolves getByUser(userId) hands over exactly the
\* committed records whose userId is the trimmed argument, each once (the
\* empty sequence when there is none); a getByUser call rejects only on an
\* I/O fault.
C4_ExactlyTheUsersRecords ==
    [][\A g \in Slots :
         (calls[g].op = "getByUser" /\ calls[g].status = "pending") =>
           /\ calls'[g].status = "resolved" =>
                LET docs == calls'[g].result.docs
                    want == {store[k] : k \in {j \in DOMAIN store :
                                                 store[j].userId = UserKey(g)}}
                IN  /\ undo = <<>>
                    /\ {docs[i] : i \in 1..Len(docs)} = want
                    /\ Len(docs) = Cardinality(want)
           /\ calls'[g].status = "rejected" => faults' = faults + 1]_vars

\* C4's case: getByUser(' u') resolved with the record of 'u' while a record of
\* another user is in the store.
C4_Witness ==
    \E g \in Slots :
        /\ calls[g].op = "getByUser" /\ calls[g].status = "resolved"
        /\ calls[g].args[1] # UserKey(g)
        /\ Len(calls[g].result.docs) >= 1
        /\ \E k \in DOMAIN store : store[k].userId # UserKey(g)
        /\ \E k \in DOMAIN store : store[k].userId = UserKey(g)

\* C5: store.delete(id) leaves the store as it is when no record has key id
\* and removes just that record otherwise, and the commit of a delete resolves
\* the call without error and changes nothing more; so a second delete(id)
\* changes nothing and resolves too.
C5_DeleteIdempotent ==
    [][\A c \in Slots : calls[c].op = "delete" =>
         LET k == KeyOf(calls[c].args[1]) IN
         /\ (calls[c].tx = "queued" /\ calls'[c].tx = "active") =>
              /\ k \notin DOMAIN store => store' = store
              /\ store' = [j \in DOMAIN store \ {k} |-> store[j]]
         /\ (calls[c].tx = "active" /\ calls'[c].tx = "committed") =>
              /\ calls'[c].status = "resolved"
              /\ calls'[c].result = Undefined
              /\ store' = store]_vars

\* C5's case: two delete(1) calls have both resolved, the second after the
\* first had committed.
C5_Witness ==
    \E c, d \in Slots :
        /\ c < d
        /\ calls[c].op = "delete" /\ calls[c].parent = 0
        /\ calls[d].op = "delete" /\ calls[d].parent = 0
        /\ calls[c].args = calls[d].args
        /\ calls[c].status = "resolved" /\ calls[d].status = "resolved"
        /\ KeyOf(calls[d].args[1]) \notin DOMAIN store

\* the highest slot among call p and the deletes it issued: a call in a
\* higher slot was made after p's read
LastOf(p) == CHOOSE m \in Children(p) \cup {p} : \A d \in Children(p) \cup {p} : d <= m

\* C6: once clearUserDocuments(userId) has resolved, and no save for that user
\* was called after it, no record of the user is in the store, a getByUser of
\* the user called afterwards resolves with the empty sequence, and every
\* record of another user that no other delete removed is still there,
\* unchanged.
C6_ClearedThenEmpty ==
    \A p \in Slots :
        ( /\ calls[p].op = "clearUserDocuments" /\ calls[p].status = "resolved"
          /\ \A s \in Slots :
               (calls[s].op = "save" /\ calls[s].doc # NoDoc
                  /\ calls[s].doc.userId = UserKey(p)) => s < p )
        => /\ \A k \in DOMAIN store : store[k].userId # UserKey(p)
           /\ \A g \in Slots :
                ( /\ calls[g].op = "getByUser" /\ calls[g].status = "resolved"
                  /\ UserKey(g) = UserKey(p)
                  /\ g > LastOf(p) )
                => calls[g].result = Docs(<<>>)
           /\ \A s \in Slots :
                ( /\ calls[s].op = "save" /\ calls[s].status = "resolved"
                  /\ calls[s].doc.userId # UserKey(p)
                  /\ ~\E d \in Slots \ Children(p) :
                        /\ calls[d].op = "delete"
                        /\ KeyOf(calls[d].args[1]) = calls[s].key
                        /\ calls[d].tx \in {"active", "committed"} )
                => /\ calls[s].key \in DOMAIN store
                   /\ store[calls[s].key] = WithKey(calls[s].doc, calls[s].key)

\* C6's case: a clearUserDocuments that read at least one record has resolved
\* and a getByUser of the same user called after it has resolved, with nothing.
C6_Witness ==
    \E p, g \in Slots :
        /\ calls[p].op = "clearUserDocuments" /\ calls[p].status = "resolved"
        /\ Len(calls[p].docs) >= 1
        /\ calls[g].op = "getByUser" /\ calls[g].status = "resolved"
        /\ UserKey(g) = UserKey(p)
        /\ g > LastOf(p)
        /\ calls[g].result = Docs(<<>>)

\* C7: the value clearUserDocuments resolves with is the number of records its
\* read step observed, all of them records of that user, one delete issued for
\* each.
C7_CountIsWhatWasRead ==
    \A p \in Slots :
        (calls[p].op = "clearUserDocuments" /\ calls[p].status = "resolved")
        => /\ calls[p].result = Num(Len(calls[p].docs))
           /\ Cardinality(Children(p)) = Len(calls[p].docs)
           /\ \A i \in 1..Len(calls[p].docs) :
                /\ calls[p].docs[i].userId = UserKey(p)
                /\ \E d \in Children(p) :
                     calls[d].args = <<Num(calls[p].docs[i].id)>>

\* C7's case: clearUserDocuments read one record and resolved with 1 although a
\* delete called by someone else, served before its own, had removed the
\* record.
C7_Witness ==
    \E p, t, d \in Slots :
        /\ calls[p].op = "clearUserDocuments" /\ calls[p].status = "resolved"
        /\ calls[p].result = Num(1)
        /\ calls[t].op = "delete" /\ calls[t].parent = 0
        /\ calls[t].status = "resolved"
        /\ d \in Children(p)
        /\ p < t /\ t < d
        /\ calls[t].args = calls[d].args

NonEmptyString(x) == x.t = "string" /\ x.s # <<>>

MeetsPrecondition(op, a) ==
    CASE op = "save" ->
           /\ NonEmptyString(a[1]) /\ NonEmptyString(a[2])
           /\ a[3].t \in {"object", "array"}
           /\ NonEmptyString(a[4])
      [] op \in {"getByUser", "clearUserDocuments"} -> NonEmptyString(a[1])
      [] op \in {"getById", "delete"} ->
           NonEmptyString(a[1]) \/ (a[1].t = "number" /\ a[1].den = 1)
      [] OTHER -> TRUE

ValidationMessages ==
    {"Invalid docId provided", "Invalid title provided", "Invalid data provided",
     "Invalid userId provided", "Invalid id provided"}

\* C9 (as claimed): a call whose arguments violate the operation's
\* precondition has rejected with a validation error, has opened no database
\* and started no transaction.
C9_ValidationPrecedesIO ==
    \A c \in Slots :
        (calls[c].op # "idle" /\ ~MeetsPrecondition(calls[c].op, calls[c].args))
        => /\ calls[c].status = "rejected"
           /\ calls[c].result.t = "error"
           /\ calls[c].result.msg \in ValidationMessages
           /\ calls[c].open = "none"
           /\ calls[c].tx = "none"

\* The part of C9 that holds: a call the validation rejects has opened no
\* database and started no transaction, and every call that violates its
\* precondition is so rejected unless its id is a number that is no integer.
RejectedBeforeIO ==
    \A c \in Slots :
        /\ (calls[c].result.t = "error" /\ calls[c].result.msg \in ValidationMessages)
             => calls[c].open = "none" /\ calls[c].tx = "none"
        /\ ( /\ calls[c].op # "idle"
             /\ ~MeetsPrecondition(calls[c].op, calls[c].args)
             /\ ~(calls[c].op \in {"getById", "delete"}
                    /\ calls[c].args[1].t = "number" /\ calls[c].args[1].den # 1) )
           => /\ calls[c].status = "rejected"
              /\ calls[c].result.t = "error"
              /\ calls[c].result.msg \in ValidationMessages

\* C10 (as claimed): the docId, title and userId of every stored record are
\* non-empty strings with no leading or trailing whitespace.
C10_StoredStringsNonEmptyTrimmed ==
    \A k \in DOMAIN store : \A f \in {"docId", "title", "userId"} :
        LET v == store[k][f] IN
        /\ v.t = "string"
        /\ v.s # <<>>
        /\ Head(v.s) \notin WhiteSpace
        /\ v.s[Len(v.s)] \notin WhiteSpace

\* The part of C10 that holds: the three strings of a stored record have no
\* leading or trailing whitespace.
StoredStringsTrimmed ==
    \A k \in DOMAIN store : \A f \in {"docId", "title", "userId"} :
        LET v == store[k][f] IN
        /\ v.t = "string"
        /\ v.s # <<>> => (Head(v.s) \notin WhiteSpace /\ v.s[Len(v.s)] \notin WhiteSpace)

(***************************************************************************)
(* sanitizeData on its own.                                                *)
(***************************************************************************)
RawChars == {"<", ">", "\"", "'", "/"}

IsContainer(v) == v.t \in {"object", "array"}

\* every string leaf of r is the escaped leaf of v at the same place (the
\* places of a mapping are its keys, those of a sequence its indices)
RECURSIVE LeavesEscaped(_, _)
LeavesEscaped(v, r) ==
    IF v.t = "string" THEN r = Str(EscapeHtml(v.s))
    ELSE IF IsContainer(v)
    THEN /\ IsContainer(r)
         /\ EntryKeys(r) = EntryKeys(v)
         /\ \A k \in EntryKeys(v) : LeavesEscaped(EntryValue(v, k), EntryValue(r, k))
    ELSE TRUE

\* no string leaf of r holds one of the five characters
RECURSIVE NoRawChars(_)
NoRawChars(r) ==
    IF r.t = "string" THEN \A i \in 1..Len(r.s) : r.s[i] \notin RawChars
    ELSE IF IsContainer(r)
    THEN \A k \in EntryKeys(r) : NoRawChars(EntryValue(r, k))
    ELSE TRUE

\* C11 (as claimed): every string leaf of sanitizeData(v), a mapping value or
\* an element of a sequence, at any depth, is the leaf of v with the five
\* characters replaced by their entities, and so holds none of the five.
C11_EveryStringLeafEscaped ==
    passes # <<>> => (LeavesEscaped(value, passes[1]) /\ NoRawChars(passes[1]))

\* r has the structure of v: mappings with the same keys, sequences of the same
\* length, numbers, booleans and null unchanged
RECURSIVE SameShape(_, _)
SameShape(v, r) ==
    CASE v.t = "object" ->
           /\ r.t = "object"
           /\ DOMAIN r.m = DOMAIN v.m
           /\ \A k \in DOMAIN v.m : SameShape(v.m[k], r.m[k])
      [] v.t = "array" ->
           /\ r.t = "array"
           /\ Len(r.a) = Len(v.a)
           /\ \A i \in 1..Len(v.a) : SameShape(v.a[i], r.a[i])
      [] v.t = "string" -> r.t = "string"
      [] OTHER -> r = v

\* C12 (as claimed): sanitizeData(v) has the structure of v at every depth,
\* also when v is a sequence and where a sequence sits directly inside a
\* sequence.
C12_ShapePreserved ==
    passes # <<>> => SameShape(value, passes[1])

\* C13: a second application of sanitizeData returns what the first returned
\* (and so does every later one).
C13_IdempotentAfterFirstPass ==
    \A i \in 1..(Len(passes) - 1) : passes[i + 1] = passes[i]

\* C13's case: the first pass changed the value, writing an entity, and the
\* second pass has run.
C13_Witness ==
    /\ Len(passes) >= 2
    /\ passes[1] # value
    /\ value.t = "object"
    /\ "a" \in DOMAIN value.m
    /\ value.m["a"] = Str(<<"<">>)
    /\ passes[2].m["a"] = Str(<<"&", "l", "t", ";">>)

(***************************************************************************)
(* The stored record.                                                      *)
(***************************************************************************)
\* data has a docType field
HasDocType(data) == data.t = "object" /\ "docType" \in DOMAIN data.m

\* C14 (as claimed): the docType of the record a successful save stored is a
\* string; it is the docType field of the data when the data has one, and it
\* is "unknown" exactly when the data has none.
C14_DocTypeStringFromData ==
    \A c \in Slots :
        (calls[c].op = "save" /\ calls[c].status = "resolved")
        => LET data == calls[c].args[3]
               docType == calls[c].doc.docType
           IN  /\ docType.t = "string"
               /\ HasDocType(data) => docType = data.m["docType"]
               /\ docType = Unknown <=> ~HasDocType(data)

\* The part of C14 that holds: the docType stored is the docType field of the
\* data when that field is truthy, and "unknown" otherwise.
DocTypeFromTruthyField ==
    \A c \in Slots :
        (calls[c].op = "save" /\ calls[c].status = "resolved")
        => LET data == calls[c].args[3]
               docType == calls[c].doc.docType
           IN  IF HasDocType(data) /\ Truthy(data.m["docType"])
               THEN docType = data.m["docType"]
               ELSE docType = Unknown

\* C15: the ids distinct resolved saves returned are pairwise distinct; each
\* is a key the generator has passed, so no later save is given it again,
\* whether or not its record has been deleted; every record is stored under
\* its own id, so no two records share one.
C15_KeysUniqueNeverReused ==
    /\ \A s, t \in Slots :
         ( /\ s # t
           /\ calls[s].op = "save" /\ calls[s].status = "resolved"
           /\ calls[t].op = "save" /\ calls[t].status = "resolved" )
         => calls[s].result # calls[t].result
    /\ \A s \in Slots :
         (calls[s].op = "save" /\ calls[s].status = "resolved")
         => (calls[s].result.t = "number" /\ calls[s].result.den = 1
             /\ calls[s].result.num >= 1 /\ calls[s].result.num < keyGen)
    /\ \A k \in DOMAIN store : store[k].id = k /\ k < keyGen

\* C15's case: a save resolved, a delete removed its record, and a save called
\* after that resolved with another id.
C15_Witness ==
    \E s, d, t \in Slots :
        /\ s < d /\ d < t
        /\ calls[s].op = "save" /\ calls[s].status = "resolved"
        /\ calls[d].op = "delete" /\ calls[d].status = "resolved"
        /\ calls[d].args[1] = calls[s].result
        /\ calls[t].op = "save" /\ calls[t].status = "resolved"
        /\ calls[s].key \notin DOMAIN store
        /\ calls[t].result # calls[s].result

\* the save whose record is stored under key k has committed
Committed(k) ==
    \E s \in Slots : calls[s].op = "save" /\ calls[s].tx = "committed" /\ calls[s].key = k

\* C16: no step changes a record that is in the store before and after it; a
\* record whose save has committed is, field by field, the document that save
\* built, and it leaves the store only by a delete of its key (and comes back
\* unchanged when that delete's transaction is rolled back).
C16_RecordsNeverMutated ==
    [][/\ \A k \in DOMAIN store \cap DOMAIN store' : store'[k] = store[k]
       /\ \A k \in DOMAIN store' :
            \A s \in Slots :
               (calls'[s].op = "save" /\ calls'[s].tx = "committed" /\ calls'[s].key = k)
               => /\ \A f \in RecordFields \ {"id"} : store'[k][f] = calls'[s].doc[f]
                  /\ store'[k].id = k
       /\ \A k \in DOMAIN store \ DOMAIN store' :
            Committed(k) =>
               \E d \in Slots : /\ calls[d].op = "delete"
                                /\ KeyOf(calls[d].args[1]) = k
                                /\ calls[d].tx = "queued" /\ calls'[d].tx = "active"
       /\ \A k \in DOMAIN store' \ DOMAIN store :
            \/ \E s \in Slots : /\ calls[s].op = "save"
                                /\ calls[s].tx = "queued" /\ calls'[s].tx = "active"
                                /\ calls'[s].key = k
            \/ /\ undo # <<>> /\ k \in DOMAIN undo[1].store
               /\ store'[k] = undo[1].store[k]]_vars

\* C16's case: the record of one save is in the store as that save built it
\* after a later save has committed and a delete has removed another record.
C16_Witness ==
    \E s, t, d \in Slots :
        /\ calls[s].op = "save" /\ calls[s].status = "resolved"
        /\ calls[t].op = "save" /\ calls[t].status = "resolved"
        /\ s # t
        /\ calls[d].op = "delete" /\ calls[d].status = "resolved"
        /\ calls[d].args[1] = calls[t].result
        /\ calls[t].key \notin DOMAIN store
        /\ calls[s].key \in DOMAIN store
        /\ store[calls[s].key] = WithKey(calls[s].doc, calls[s].key)

\* C17 (as claimed): getById(id) and delete(id) reject with the validation
\* error exactly when id is neither a non-empty string nor an integer; every
\* other id passes and reaches the database.
C17_IdRejectedIffNotStringOrInteger ==
    \A c \in Slots :
        (calls[c].op \in {"getById", "delete"} /\ calls[c].parent = 0)
        => LET id == calls[c].args[1]
               rejected == /\ calls[c].status = "rejected"
                           /\ calls[c].result = Err("Invalid id provided")
           IN  /\ rejected <=> ~(NonEmptyString(id) \/ (id.t = "number" /\ id.den = 1))
               /\ (~rejected /\ supported) => calls[c].open # "none"

\* What holds of the validation of ids: the empty string, null, undefined and
\* values that are neither strings nor numbers are rejected, non-empty strings
\* and integers other than 0 pass, and a call that passes reaches the database.
IdValidation ==
    \A c \in Slots :
        (calls[c].op \in {"getById", "delete"} /\ calls[c].parent = 0)
        => LET id == calls[c].args[1]
               rejected == /\ calls[c].status = "rejected"
                           /\ calls[c].result = Err("Invalid id provided")
           IN  /\ (id.t \notin {"string", "number"} \/ id = Str(<<>>)) => rejected
               /\ (NonEmptyString(id) \/ (id.t = "number" /\ id.den = 1 /\ id.num # 0))
                    => ~rejected
               /\ (~rejected /\ supported) => calls[c].open # "none"

\* C18: the step that settles getById(id) resolves it with null when no
\* committed record has primary key id and with that record otherwise; a
\* getById call rejects only on an I/O fault, never because nothing was found.
C18_NotFoundIsNull ==
    [][\A g \in Slots :
         (calls[g].op = "getById" /\ calls[g].status = "pending") =>
           LET k == KeyOf(calls[g].args[1]) IN
           /\ calls'[g].status = "resolved" =>
                /\ undo = <<>>
                /\ k \notin DOMAIN store => calls'[g].result = Null
                /\ k \in DOMAIN store => calls'[g].result = Doc(store[k])
           /\ calls'[g].status = "rejected" => faults' = faults + 1]_vars

\* C18's case: a getById of an id whose record a delete had removed resolved
\* with null.
C18_Witness ==
    \E s, d, g \in Slots :
        /\ s < d /\ d < g
        /\ calls[s].op = "save" /\ calls[s].status = "resolved"
        /\ calls[d].op = "delete" /\ calls[d].status = "resolved"
        /\ calls[d].args[1] = calls[s].result
        /\ calls[g].op = "getById" /\ calls[g].status = "resolved"
        /\ calls[g].args[1] = calls[s].result
        /\ calls[g].result = Null

(***************************************************************************)
(* Faults and connections.                                                 *)
(***************************************************************************)
\* C19 (as claimed): a save, delete, getById or getByUser call whose
\* transaction has finished is not pending; when the transaction aborted, the
\* call has rejected with an error.
C19_EveryFaultReachesCaller ==
    \A c \in Slots :
        calls[c].op \in {"save", "delete", "getById", "getByUser"}
        => /\ calls[c].tx \in {"committed", "aborted"} => calls[c].status # "pending"
           /\ calls[c].tx = "aborted" => calls[c].result.t = "error"

\* What holds of faults: a failed open and a failed request reject the call
\* with an error, and an aborted transaction leaves the store and the key
\* generator as it found them.
RequestFaultsRejectAbortsRollBack ==
    [][/\ \A c \in Slots :
            (calls[c].open = "pending" /\ calls'[c].open = "failed")
            => (calls'[c].status = "rejected" /\ calls'[c].result.t = "error")
       /\ \A c \in Slots :
            (calls[c].tx = "queued" /\ calls'[c].tx = "aborted")
            => /\ calls'[c].status = "rejected" /\ calls'[c].result.t = "error"
               /\ store' = store /\ keyGen' = keyGen
       /\ \A c \in Slots :
            (calls[c].tx = "active" /\ calls'[c].tx = "aborted")
            => (store' = undo[1].store /\ keyGen' = undo[1].keyGen)]_vars

\* the operations in flight
InFlight == {c \in Used : calls[c].status = "pending"}

\* C20 (as claimed): there are never more open connections than operations in
\* flight; with no operation in flight no connection is open.
C20_NoConnectionOutlivesItsOperation ==
    conns <= Cardinality(InFlight)

\* What holds of connections: each operation that reached indexedDB.open and
\* was served opened one connection of its own.
OneConnectionPerOperation ==
    conns = Cardinality({c \in Used : calls[c].open = "open"})

(***************************************************************************)
(* Concurrent saves.                                                       *)
(***************************************************************************)
\* the saves called so far
Saves == {c \in Used : calls[c].op = "save"}

\* the record of save c is in the store under c's key and carries c's own
\* trimmed docId, title and userId and c's own sanitized data
OwnRecordStored(c) ==
    LET a == calls[c].args
        k == calls[c].key
    IN  /\ k \in DOMAIN store
        /\ store[k].id = k
        /\ store[k].docId = Str(Trim(a[1].s))
        /\ store[k].title = Str(Trim(a[2].s))
        /\ store[k].data = sanitizeData(a[3])
        /\ store[k].userId = Str(Trim(a[4].s))

\* C21: with IndexedDB present and no fault, however the steps of concurrent
\* save calls interleave, no save rejects, the saves that have resolved hold
\* pairwise different ids and each one's record is in the store with that
\* call's own fields, the store holds no record but those of the saves that
\* have added one (one per call), and the saves that were called all resolve.
C21_ConcurrentSavesIndependent ==
    /\ [](supported =>
            /\ \A c \in Saves : calls[c].status # "rejected"
            /\ \A c, d \in Saves :
                 (c # d /\ calls[c].key # 0 /\ calls[d].key # 0)
                 => calls[c].key # calls[d].key
            /\ \A c \in Saves : calls[c].status = "resolved" =>
                 (calls[c].result = Num(calls[c].key) /\ OwnRecordStored(c))
            /\ Cardinality(DOMAIN store) = Cardinality({c \in Saves : calls[c].key # 0})
            /\ \A k \in DOMAIN store : \E c \in Saves : calls[c].key = k)
    /\ []<>(supported => \A c \in Saves : calls[c].status = "resolved")

\* C21's case: while one save with arguments of its own waits for its
\* transaction's turn behind it, a save has resolved, and its record and the
\* record of another, whose transaction is running, are in the store, each
\* with its own fields.
C21_Witness ==
    \E c, d, e \in Saves :
        /\ c # d /\ d # e /\ c # e
        /\ calls[c].args # calls[d].args
        /\ calls[c].status = "resolved" /\ OwnRecordStored(c)
        /\ calls[d].tx = "active" /\ OwnRecordStored(d)
        /\ calls[e].tx = "queued"

\* C22: with a clock that does not go backwards, of any two records in the
\* store the one with the lower id has no later timestamp.
C22_TimestampOrderIsIdOrder ==
    \A a, b \in DOMAIN store :
        a < b => store[a].timestamp <= store[b].timestamp

\* C22's case: two saves were in flight together, the clock moved between their
\* readings, and both records are in the store, the lower id with the earlier
\* timestamp.
C22_Witness ==
    \E c, d \in Saves :
        /\ calls[c].tx = "committed" /\ calls[d].tx = "active"
        /\ calls[c].key \in DOMAIN store /\ calls[d].key \in DOMAIN store
        /\ calls[c].key < calls[d].key
        /\ store[calls[c].key].timestamp < store[calls[d].key].timestamp
        /\ \E e \in Saves : calls[e].tx = "queued" /\ calls[e].doc.timestamp = now

(***************************************************************************)
(* The rate limiter.                                                       *)
(***************************************************************************)
\* the number of times canMakeCall(a) returned true in [from, from + timeWindow)
GrantedIn(a, from) ==
    Cardinality({i \in 1..Len(granted[a]) :
                   granted[a][i] >= from /\ granted[a][i] < from + timeWindow})

\* s is the end of g
IsSuffix(s, g) ==
    /\ Len(s) <= Len(g)
    /\ \A i \in 1..Len(s) : s[i] = g[Len(g) - Len(s) + i]

\* C23: for each apiType, canMakeCall returned true at most maxCalls times in
\* any half-open interval of timeWindow ms (those beginning at a time it
\* returned true hold every case); the list kept for the apiType never has more
\* than maxCalls entries; the list holds times at which canMakeCall returned
\* true and no others, so a call that returned false recorded none, and it
\* returned false with the list full.
C23_AtMostMaxCallsPerWindow ==
    /\ \A a \in ApiTypes :
         /\ \A i \in 1..Len(granted[a]) : GrantedIn(a, granted[a][i]) <= maxCalls
         /\ Len(callsOf(a)) <= maxCalls
         /\ IsSuffix(callsOf(a), granted[a])
    /\ (returned # NoResult /\ ~returned.value) =>
         /\ Len(callsOf(returned.apiType)) = maxCalls
         /\ \A i \in 1..maxCalls : now - callsOf(returned.apiType)[i] < timeWindow

\* C23's case: ten calls for an apiType returned true within one window and
\* the eleventh, still within it, returned false.
C23_Witness ==
    /\ returned # NoResult
    /\ ~returned.value
    /\ Len(granted[returned.apiType]) = maxCalls
    /\ granted[returned.apiType][1] < now
    /\ now - granted[returned.apiType][1] < timeWindow

(***************************************************************************)
(* The debounced autofill.                                                 *)
(***************************************************************************)
\* C24 (as claimed): the postal code of a lookup that has started is the
\* trimmed value the field's most recent input event carried at that moment,
\* and the lookup is for that event: no later input event on the field had
\* arrived, valid or not.
C24_LookupIsForLatestInput ==
    lookup # NoResult =>
        /\ lookup.value = lookup.shown
        /\ lookup.event = lookup.last

\* What holds of the debounce: a field has at most the timeout its last
\* accepted input event set, due 500 ms after that event, and a lookup passes
\* on the trimmed value, the country and the prefix that event had.
OneTimeoutPerField ==
    /\ \A f \in Fields : apiTimeout[f] # NoTimer =>
         /\ f \in Triggers
         /\ apiTimeout[f].event <= typed[f].event
         /\ apiTimeout[f].due <= now + debounce
         /\ apiTimeout[f].value.s # <<>>
         /\ apiTimeout[f].value.s = Trim(apiTimeout[f].value.s)
         /\ apiTimeout[f].event = typed[f].event
              => apiTimeout[f].value = Str(Trim(typed[f].value.s))
    /\ lookup # NoResult =>
         /\ lookup.event <= lookup.last
         /\ lookup.event = lookup.last => lookup.value = lookup.shown

=============================================================================
